---- MODULE Spec2Model ----
(***************************************************************************)
(* A model of the execution dispatcher of CodeLab (src/server.js):         *)
(* executeCode, the exec callback, cleanup, and the external processes a   *)
(* run starts in the shared working directory temp/.                       *)
(*                                                                         *)
(* Node runs every JavaScript handler to completion, so executeCode up to  *)
(* its exec call is one action and the exec callback (cleanup, classify,   *)
(* callback) is one action.  The shell and the tools it starts are         *)
(* external processes: each of their steps is an action of its own that    *)
(* interleaves freely with the handlers of the other calls.                *)
(***************************************************************************)
EXTENDS Integers, Sequences, FiniteSets, TLC

\* Number of executeCode calls of one behaviour.
MaxCalls == 2

Calls == 1..MaxCalls

VARIABLES
    platform,   \* process.platform of the server
    fs,         \* the files of the working directory: path -> content
    nextCall,   \* the next call of executeCode to be made
    pc,         \* per call: "idle", "exec" (waiting for exec), "done", "thrown"
    lang,       \* per call: the language identifier passed in
    code,       \* per call: the source text passed in
    proc,       \* per call: the external process tree started by exec
    written,    \* per call: how fs.writeFileSync ended ("" before it ran)
    delivered,  \* per call: the results passed to the callback, in order
    touched,    \* per call: the paths the run wrote, executed or deleted
    execs,      \* per call: how many times exec was called
    selected,   \* client: els.lang.value
    editor,     \* client: editor.getValue()
    storage,    \* client: localStorage, key -> value
    lastContent, \* client, per language: the last editor content set while
                \* that language was selected
    runDisabled, \* client: els.run.disabled
    inflight    \* client: runCode invocations between their start and their finally

serverVars == <<platform, fs, nextCall, pc, lang, code, proc, written, delivered,
                touched, execs>>

clientVars == <<selected, editor, storage, lastContent, runDisabled, inflight>>

vars == <<serverVars, clientVars>>

(***************************************************************************)
(* Paths.  Every path is path.join(dir, name); it is kept as the pair so   *)
(* that path.dirname and the suffix appended to a binary path are          *)
(* computed, not assumed.                                                  *)
(***************************************************************************)
TEMP_DIR == "temp"

PathJoin(dir, name) == [dir |-> dir, name |-> name]

Dirname(p) == p.dir

AddSuffix(p, s) == [dir |-> p.dir, name |-> p.name \o s]

\* A run identity computed once and shared by every call.
RunIdShared(c) == ToString(0)

\* randomBytes(8).toString('hex'): a fresh token per call.
RunId(c) == ToString(c)

(***************************************************************************)
(* The recipe registry.                                                    *)
(***************************************************************************)
LANGUAGES ==
    [ javascript |-> [ext |-> ".js",   cmd |-> "node"],
      python     |-> [ext |-> ".py",   cmd |-> "python"],
      java       |-> [ext |-> ".java", cmd |-> "javac", filename |-> "Main.java"],
      cpp        |-> [ext |-> ".cpp",  cmd |-> "g++"],
      csharp     |-> [ext |-> ".cs",   cmd |-> "mcs"],
      go         |-> [ext |-> ".go",   cmd |-> "go run"],
      rust       |-> [ext |-> ".rs",   cmd |-> "rustc"],
      php        |-> [ext |-> ".php",  cmd |-> "php"] ]

\* Names every plain object inherits from Object.prototype (a sample).
ObjectPrototypeKeys == {"constructor", "__proto__"}

\* LANGUAGES[lang] is truthy.
HasConfig(l) == l \in DOMAIN LANGUAGES \/ l \in ObjectPrototypeKeys

\* LANGUAGES[lang], for a lang with HasConfig: an own recipe, or the
\* inherited value, which has none of ext, cmd, filename.
Lookup(l) == IF l \in DOMAIN LANGUAGES THEN LANGUAGES[l] ELSE [inherited |-> l]

\* `${config.ext}` in a template string.
ExtOf(config) == IF "ext" \in DOMAIN config THEN config.ext ELSE "undefined"

\* config.filename || `s_${runId}${config.ext}`
FileName(config, runId) ==
    IF "filename" \in DOMAIN config THEN config.filename
    ELSE "s_" \o runId \o ExtOf(config)

IsWin(plat) == plat = "win32"

NoPath == [dir |-> "", name |-> ""]

(***************************************************************************)
(* config.cmd(f, dir, name): the command line, as the steps the shell      *)
(* runs.  compiler = "" for a single command; out is the path handed to    *)
(* the compiler, exe is the file the second command of the chain runs.     *)
(***************************************************************************)
Cmd(config, f, dir, name, plat) ==
    CASE config.cmd \in {"node", "python", "go run", "php"} ->
            [tool |-> IF config.cmd = "python" /\ ~IsWin(plat) THEN "python3"
                      ELSE config.cmd,
             compiler |-> "", src |-> f, out |-> NoPath, exe |-> f]
      [] config.cmd = "javac" ->
            [tool |-> "java", compiler |-> "javac", src |-> f,
             out |-> PathJoin(Dirname(f), "Main.class"),
             exe |-> PathJoin(dir, "Main.class")]
      [] config.cmd \in {"g++", "rustc"} ->
            LET out == PathJoin(dir, name) IN
            [tool |-> "", compiler |-> config.cmd, src |-> f, out |-> out,
             exe |-> IF IsWin(plat) THEN AddSuffix(out, ".exe") ELSE out]
      [] config.cmd = "mcs" ->
            LET out == PathJoin(dir, name \o ".exe") IN
            [tool |-> "mono", compiler |-> "mcs", src |-> f, out |-> out,
             exe |-> out]

\* The file a compiler writes when told to write `out`: g++ and rustc on
\* Windows append .exe to a name without a suffix.
CompilerOutput(cmd, plat) ==
    IF IsWin(plat) /\ cmd.compiler \in {"g++", "rustc"}
    THEN AddSuffix(cmd.out, ".exe") ELSE cmd.out

(***************************************************************************)
(* The working directory.                                                  *)
(***************************************************************************)
ExistsSync(files, p) == p \in DOMAIN files

WriteFile(files, p, content) ==
    [q \in DOMAIN files \cup {p} |-> IF q = p THEN content ELSE files[q]]

UnlinkSync(files, p) == [q \in DOMAIN files \ {p} |-> files[q]]

SourceFile(text) == [type |-> "text", text |-> text]
Truncated == [type |-> "text", text |-> ""]
Binary(text) == [type |-> "binary", text |-> text]

(***************************************************************************)
(* Source texts submitted by callers, and what each program does.          *)
(***************************************************************************)
Codes == {"print_hello", "warn_and_print", "syntax_error", "exit_1_silently",
          "while_true", "print_2MB"}

Program(text) ==
    CASE text = "print_hello" ->
            [valid |-> TRUE, halts |-> TRUE, floods |-> FALSE,
             exit |-> 0, stdout |-> "hello", stderr |-> ""]
      [] text = "warn_and_print" ->
            [valid |-> TRUE, halts |-> TRUE, floods |-> FALSE,
             exit |-> 0, stdout |-> "done", stderr |-> "warning"]
      [] text = "syntax_error" ->
            [valid |-> FALSE, halts |-> TRUE, floods |-> FALSE,
             exit |-> 1, stdout |-> "", stderr |-> "SyntaxError"]
      [] text = "exit_1_silently" ->
            [valid |-> TRUE, halts |-> TRUE, floods |-> FALSE,
             exit |-> 1, stdout |-> "", stderr |-> ""]
      [] text = "while_true" ->
            [valid |-> TRUE, halts |-> FALSE, floods |-> FALSE,
             exit |-> 0, stdout |-> "", stderr |-> ""]
      [] text = "print_2MB" ->
            [valid |-> TRUE, halts |-> TRUE, floods |-> TRUE,
             exit |-> 0, stdout |-> "xxxx", stderr |-> ""]
      [] OTHER ->
            [valid |-> FALSE, halts |-> TRUE, floods |-> FALSE,
             exit |-> 1, stdout |-> "", stderr |-> "SyntaxError"]

\* Language identifiers callers pass: one registered language per shape of
\* recipe (single command, fixed file name, generated binary), an inherited
\* property name, an unknown name.
LangInputs == {"javascript", "java", "cpp", "constructor", "ruby"}

Platforms == {"linux", "win32"}

NoCmd == [tool |-> "", compiler |-> "", src |-> NoPath, out |-> NoPath, exe |-> NoPath]

NoProc ==
    [cmd |-> NoCmd, stage |-> "none", shell |-> "none", exit |-> -1,
     signal |-> "", stdout |-> "", stderr |-> "", killed |-> FALSE,
     ex |-> "", text |-> "", ran |-> "", cause |-> ""]

(***************************************************************************)
(* The browser client (src/unnamed/part_000): the state of the page after  *)
(* its script has run.                                                     *)
(***************************************************************************)
DEFAULT_LANG == "javascript"

\* The languages of the language selector (a sample of the eight).
ClientLangs == {"javascript", "python", "java"}

\* TEMPLATES[lang]: a text of its own per language.
TEMPLATES == [l \in ClientLangs |-> "template of " \o l]

\* `codelab_v2_${lang}`
StorageKey(l) == "codelab_v2_" \o l

\* localStorage.setItem and localStorage.removeItem
SetItem(store, k, v) == [q \in DOMAIN store \cup {k} |-> IF q = k THEN v ELSE store[q]]
RemoveItem(store, k) == [q \in DOMAIN store \ {k} |-> store[q]]

\* What loadCode(lang) puts into the editor: the saved text when getItem
\* returns a truthy value (not null, not ""), else the template.
LoadedText(store, l) ==
    IF StorageKey(l) \in DOMAIN store /\ store[StorageKey(l)] # ""
    THEN store[StorageKey(l)]
    ELSE TEMPLATES[l]

\* The page as the script leaves it: loadCode(DEFAULT_LANG) has set the
\* editor, and the change handler has saved that text.
ClientInit ==
    /\ selected = DEFAULT_LANG
    /\ editor = TEMPLATES[DEFAULT_LANG]
    /\ storage = SetItem(<< >>, StorageKey(DEFAULT_LANG), TEMPLATES[DEFAULT_LANG])
    /\ lastContent = SetItem(<< >>, DEFAULT_LANG, TEMPLATES[DEFAULT_LANG])
    /\ runDisabled = FALSE
    /\ inflight = 0

Init ==
    /\ platform \in Platforms
    /\ fs = << >>
    /\ nextCall = 1
    /\ pc = [c \in Calls |-> "idle"]
    /\ lang = [c \in Calls |-> ""]
    /\ code = [c \in Calls |-> ""]
    /\ proc = [c \in Calls |-> NoProc]
    /\ written = [c \in Calls |-> ""]
    /\ delivered = [c \in Calls |-> << >>]
    /\ touched = [c \in Calls |-> {}]
    /\ execs = [c \in Calls |-> 0]
    /\ ClientInit

(***************************************************************************)
(* executeCode(lang, code, callback), up to and including the exec call.   *)
(***************************************************************************)
NotSupported == [error |-> "Language not supported."]
WriteFailed == [error |-> "Server failed to write file."]

\* fs.writeFileSync opens (creates, truncates) the file and then writes it:
\* it can throw before the file exists or after it was created.
WriteOutcomes == {"ok", "open_fails", "write_fails"}

WriteFileSync(files, p, text, wr) ==
    CASE wr = "ok" -> WriteFile(files, p, SourceFile(text))
      [] wr = "write_fails" -> WriteFile(files, p, Truncated)
      [] wr = "open_fails" -> files

FilePath(l, c) == PathJoin(TEMP_DIR, FileName(Lookup(l), RunId(c)))

\* executeCode with a catch that does not return.
AfterWriteIgnoresFailure(config, wr) ==
    IF "cmd" \notin DOMAIN config THEN "throws" ELSE "exec"

\* Where executeCode goes after the write: the catch returns, a config
\* without cmd makes config.cmd(...) throw a TypeError, else exec is called.
AfterWrite(config, wr) ==
    IF wr # "ok" THEN "write_failed"
    ELSE IF "cmd" \notin DOMAIN config THEN "throws"
    ELSE "exec"

StartShell(cmd) ==
    [NoProc EXCEPT !.cmd = cmd, !.shell = "alive",
                   !.stage = IF cmd.compiler = "" THEN "run" ELSE "compile"]

executeCode(c, l, text, wr) ==
    /\ c = nextCall
    /\ pc[c] = "idle"
    /\ nextCall' = c + 1
    /\ lang' = [lang EXCEPT ![c] = l]
    /\ code' = [code EXCEPT ![c] = text]
    /\ UNCHANGED <<platform, clientVars>>
    /\ IF ~HasConfig(l)
       THEN /\ delivered' = [delivered EXCEPT ![c] = Append(@, NotSupported)]
            /\ pc' = [pc EXCEPT ![c] = "done"]
            /\ UNCHANGED <<fs, proc, written, touched, execs>>
       ELSE LET config == Lookup(l)
                filePath == FilePath(l, c)
                next == AfterWrite(config, wr)
            IN  /\ fs' = WriteFileSync(fs, filePath, text, wr)
                /\ written' = [written EXCEPT ![c] = wr]
                /\ touched' = [touched EXCEPT ![c] =
                                   IF wr = "open_fails" THEN @ ELSE @ \cup {filePath}]
                /\ CASE next = "write_failed" ->
                           /\ delivered' = [delivered EXCEPT ![c] = Append(@, WriteFailed)]
                           /\ pc' = [pc EXCEPT ![c] = "done"]
                           /\ UNCHANGED <<proc, execs>>
                     [] next = "throws" ->
                           /\ pc' = [pc EXCEPT ![c] = "thrown"]
                           /\ UNCHANGED <<proc, delivered, execs>>
                     [] next = "exec" ->
                           /\ proc' = [proc EXCEPT ![c] =
                                  StartShell(Cmd(config, filePath, TEMP_DIR,
                                                 "bin_" \o RunId(c), platform))]
                           /\ execs' = [execs EXCEPT ![c] = @ + 1]
                           /\ pc' = [pc EXCEPT ![c] = "exec"]
                           /\ UNCHANGED delivered

(***************************************************************************)
(* The external processes of a run: the shell exec starts, and the tools   *)
(* the shell starts for the steps of the command.  A tool whose shell is   *)
(* gone keeps running; its output and exit status reach nobody.            *)
(*                                                                         *)
(* The end of the command, as exec sees it, is one step: the exit of the   *)
(* shell together with the end of its output.  exec's timer is armed from  *)
(* the start of the shell until that step.                                 *)
(***************************************************************************)
ChildRunning(p) == p.stage \in {"compile", "emit", "run"}

\* The current tool, having run the program `text` ("" for a compiler or a
\* missing file), ends the command with this status and output.  cause
\* records why the command ended, ran the text of the program that ended it.
ShellExit(p, status, out, err, text) ==
    IF p.shell = "alive"
    THEN [p EXCEPT !.stage = "done", !.shell = "exited", !.exit = status,
                   !.stdout = out, !.stderr = err, !.cause = "exit",
                   !.ran = text]
    ELSE [p EXCEPT !.stage = "done"]

\* The compiler reads its source file.
CompileRead(c) ==
    /\ proc[c].stage = "compile"
    /\ LET p == proc[c]
           src == p.cmd.src
       IN  /\ proc' = [proc EXCEPT ![c] =
                  IF ~ExistsSync(fs, src)
                  THEN ShellExit(p, 1, "", "No such file", "")
                  ELSE IF ~Program(fs[src].text).valid
                  THEN ShellExit(p, 1, "", Program(fs[src].text).stderr, "")
                  ELSE [p EXCEPT !.stage = "emit", !.text = fs[src].text]]
           /\ touched' = [touched EXCEPT ![c] = @ \cup {src}]
    /\ UNCHANGED <<platform, fs, nextCall, pc, lang, code, written, delivered,
                 execs, clientVars>>

\* The compiler writes its output; the shell, if still there, goes on to
\* the second command of the chain.
CompileEmit(c) ==
    /\ proc[c].stage = "emit"
    /\ LET p == proc[c]
           out == CompilerOutput(p.cmd, platform)
       IN  /\ fs' = WriteFile(fs, out, Binary(p.text))
           /\ proc' = [proc EXCEPT ![c] =
                  [p EXCEPT !.stage = IF p.shell = "alive" THEN "run" ELSE "done"]]
           /\ touched' = [touched EXCEPT ![c] = @ \cup {out}]
    /\ UNCHANGED <<platform, nextCall, pc, lang, code, written, delivered,
                 execs, clientVars>>

\* The interpreter or the compiled program runs to its end.  A program
\* that never halts has no such step.  Output beyond exec's maxBuffer makes
\* exec record the maxBuffer error and terminate the process.
RunStep(c) ==
    /\ proc[c].stage = "run"
    /\ LET p == proc[c]
           exe == p.cmd.exe
       IN  /\ ExistsSync(fs, exe) => Program(fs[exe].text).halts
           /\ proc' = [proc EXCEPT ![c] =
                  IF ~ExistsSync(fs, exe)
                  THEN ShellExit(p, 127, "", "No such file", "")
                  ELSE LET prog == Program(fs[exe].text) IN
                       IF prog.floods /\ p.shell = "alive"
                       THEN [p EXCEPT !.stage = "done", !.shell = "killed",
                                      !.signal = "SIGTERM", !.killed = TRUE,
                                      !.ex = "maxBuffer", !.stdout = prog.stdout,
                                      !.ran = fs[exe].text, !.cause = "maxBuffer"]
                       ELSE ShellExit(p, prog.exit, prog.stdout, prog.stderr,
                                      fs[exe].text)]
           /\ touched' = [touched EXCEPT ![c] = @ \cup {exe}]
    /\ UNCHANGED <<platform, fs, nextCall, pc, lang, code, written, delivered,
                 execs, clientVars>>

\* exec's timer: kill() sets killed and signals the shell, and only the
\* shell.  The tool the shell was waiting for lives on, unless the shell had
\* replaced itself by the last command of the line.
Timeout(c, survives) ==
    /\ pc[c] = "exec"
    /\ proc[c].shell = "alive"
    /\ proc[c].stage \in {"compile", "emit"} => survives
    /\ proc' = [proc EXCEPT ![c] =
           [@ EXCEPT !.shell = "killed", !.signal = "SIGTERM", !.killed = TRUE,
                     !.cause = "timeout",
                     !.stage = IF survives THEN @ ELSE "done"]]
    /\ UNCHANGED <<platform, fs, nextCall, pc, lang, code, written, delivered, touched,
                 execs, clientVars>>

\* Something other than exec kills the processes of the run.
OutsideSignal(c) ==
    /\ pc[c] = "exec"
    /\ proc[c].shell = "alive"
    /\ proc' = [proc EXCEPT ![c] =
           [@ EXCEPT !.shell = "killed", !.signal = "SIGKILL", !.stage = "done",
                     !.cause = "signal"]]
    /\ UNCHANGED <<platform, fs, nextCall, pc, lang, code, written, delivered, touched,
                 execs, clientVars>>

(***************************************************************************)
(* cleanup(filePath, runId, ext).  Each unlinkSync can throw (EPERM, EBUSY *)
(* on a file in use); the catch swallows the error and the targets after   *)
(* the failing one are left alone.  failAt = 0: no unlinkSync throws;      *)
(* failAt = i: the unlinkSync of the i-th target throws, if it is reached. *)
(***************************************************************************)
CleanupTargets(filePath, runId) ==
    LET dir == Dirname(filePath)
        binPath == PathJoin(dir, "bin_" \o runId)
    IN  << filePath, binPath, AddSuffix(binPath, ".exe"), PathJoin(dir, "Main.class") >>

\* A cleanup loop without the existsSync test: unlinkSync of a missing target
\* throws ENOENT, and the catch ends the loop with the later targets in place.
RECURSIVE CleanupFromUnchecked(_, _, _, _)
CleanupFromUnchecked(files, targets, i, failAt) ==
    IF i > Len(targets) THEN files
    ELSE IF ~ExistsSync(files, targets[i]) THEN files
    ELSE IF failAt = i THEN files
    ELSE CleanupFromUnchecked(UnlinkSync(files, targets[i]), targets, i + 1, failAt)

RECURSIVE CleanupFrom(_, _, _, _)
CleanupFrom(files, targets, i, failAt) ==
    IF i > Len(targets) THEN files
    ELSE IF ~ExistsSync(files, targets[i]) THEN CleanupFrom(files, targets, i + 1, failAt)
    ELSE IF failAt = i THEN files
    ELSE CleanupFrom(UnlinkSync(files, targets[i]), targets, i + 1, failAt)

\* A cleanup that empties the working directory.
cleanupWholeDir(files, filePath, runId, ext, failAt) == << >>

cleanup(files, filePath, runId, ext, failAt) ==
    CleanupFrom(files, CleanupTargets(filePath, runId), 1, failAt)

FailPoints == 0..Len(CleanupTargets(NoPath, ""))

\* Whether an unlinkSync of this pass over the targets throws.
RECURSIVE UnlinkThrows(_, _, _, _)
UnlinkThrows(files, targets, i, failAt) ==
    IF i > Len(targets) THEN FALSE
    ELSE IF ~ExistsSync(files, targets[i]) THEN UnlinkThrows(files, targets, i + 1, failAt)
    ELSE IF failAt = i THEN TRUE
    ELSE UnlinkThrows(UnlinkSync(files, targets[i]), targets, i + 1, failAt)

\* A cleanup without its try and catch: the error of unlinkSync escapes.
CleanupRethrows(files, filePath, runId, ext, failAt) ==
    UnlinkThrows(files, CleanupTargets(filePath, runId), 1, failAt)

\* Whether cleanup lets an error escape to the exec callback: never, the
\* catch logs it.
CleanupThrows(files, filePath, runId, ext, failAt) == FALSE

(***************************************************************************)
(* What exec hands to its callback when the command has ended: no error    *)
(* for exit status 0 without signal; the maxBuffer error, which carries no *)
(* killed property; else "Command failed" with killed, code and signal.    *)
(***************************************************************************)
HasErr(p) == ~(p.ex = "" /\ p.exit = 0 /\ p.signal = "")

ExecError(p) ==
    IF p.ex = "maxBuffer"
    THEN [message |-> "stdout maxBuffer length exceeded",
          code |-> "ERR_CHILD_PROCESS_STDIO_MAXBUFFER"]
    ELSE [message |-> "Command failed", killed |-> p.killed,
          exit |-> p.exit, signal |-> p.signal]

\* A test of err.signal in the place of err.killed.
ErrSignalled(err) == "signal" \in DOMAIN err /\ err.signal # ""

\* err.killed, undefined being falsy.
ErrKilled(err) == IF "killed" \in DOMAIN err THEN err.killed ELSE FALSE

TimedOut == [error |-> "Execution Timed Out (Max 10s)", stderr |-> "Process killed."]

\* A classification that takes output on stderr for a failure.
ClassifyStderrAsFailure(p) ==
    IF HasErr(p) \/ p.stderr # ""
    THEN IF HasErr(p) /\ ErrKilled(ExecError(p)) THEN TimedOut
         ELSE [success |-> FALSE, error |-> "Execution Failed", stderr |-> p.stderr]
    ELSE [success |-> TRUE, output |-> p.stdout, stderr |-> p.stderr]

\* A classification without the fallback to err.message.
ClassifyWithoutMessage(p) ==
    IF HasErr(p)
    THEN IF ErrKilled(ExecError(p)) THEN TimedOut
         ELSE [success |-> FALSE, error |-> "Execution Failed", stderr |-> p.stderr]
    ELSE [success |-> TRUE, output |-> p.stdout, stderr |-> p.stderr]

\* The body of the exec callback after cleanup: the result for the caller.
Classify(p) ==
    IF HasErr(p)
    THEN LET err == ExecError(p) IN
         IF ErrKilled(err) THEN TimedOut
         ELSE [success |-> FALSE, error |-> "Execution Failed",
               stderr |-> IF p.stderr # "" THEN p.stderr ELSE err.message]
    ELSE [success |-> TRUE, output |-> p.stdout, stderr |-> p.stderr]

\* The exec callback: runs once the command has ended (exited or killed).
ExecCallback(c, failAt) ==
    /\ pc[c] = "exec"
    /\ proc[c].shell \in {"exited", "killed"}
    /\ LET filePath == FilePath(lang[c], c)
           after == cleanup(fs, filePath, RunId(c), ExtOf(Lookup(lang[c])), failAt)
           threw == CleanupThrows(fs, filePath, RunId(c), ExtOf(Lookup(lang[c])), failAt)
       IN  /\ fs' = after
           /\ touched' = [touched EXCEPT ![c] = @ \cup (DOMAIN fs \ DOMAIN after)]
           /\ delivered' = [delivered EXCEPT ![c] =
                  IF threw THEN @ ELSE Append(@, Classify(proc[c]))]
           /\ pc' = [pc EXCEPT ![c] = IF threw THEN "thrown" ELSE "done"]
    /\ UNCHANGED <<platform, nextCall, lang, code, proc, written,
                 execs, clientVars>>

Next ==
    \/ \E c \in Calls, l \in LangInputs, text \in Codes, wr \in WriteOutcomes :
          executeCode(c, l, text, wr)
    \/ \E c \in Calls : CompileRead(c)
    \/ \E c \in Calls : CompileEmit(c)
    \/ \E c \in Calls : RunStep(c)
    \/ \E c \in Calls, survives \in BOOLEAN : Timeout(c, survives)
    \/ \E c \in Calls : OutsideSignal(c)
    \/ \E c \in Calls, failAt \in FailPoints : ExecCallback(c, failAt)

Spec == Init /\ [][Next]_vars

(***************************************************************************)
(* What the scheduling guarantees: a tool that can take its next step      *)
(* takes it, the timer of exec fires while the shell is alive, and the     *)
(* event loop runs the exec callback once the command has ended.  Callers  *)
(* are under no obligation to make a call.                                 *)
(***************************************************************************)
Fairness ==
    \A c \in Calls :
        /\ WF_vars(CompileRead(c))
        /\ WF_vars(CompileEmit(c))
        /\ WF_vars(RunStep(c))
        /\ WF_vars(\E survives \in BOOLEAN : Timeout(c, survives))
        /\ WF_vars(\E failAt \in FailPoints : ExecCallback(c, failAt))

FairSpec == Spec /\ Fairness

(***************************************************************************)
(* A caller that repeats one call: each call is made after the one before  *)
(* it has ended, with the same language and the same source text.  The     *)
(* file system is one that never fails: every write and every unlink       *)
(* succeeds.                                                               *)
(***************************************************************************)
RepeatedCall(c, l, text) ==
    /\ \A b \in Calls : b < c => pc[b] \in {"done", "thrown"}
    /\ c > 1 => (l = lang[c - 1] /\ text = code[c - 1])
    /\ executeCode(c, l, text, "ok")

SeqNext ==
    \/ \E c \in Calls, l \in LangInputs, text \in Codes : RepeatedCall(c, l, text)
    \/ \E c \in Calls : CompileRead(c)
    \/ \E c \in Calls : CompileEmit(c)
    \/ \E c \in Calls : RunStep(c)
    \/ \E c \in Calls, survives \in BOOLEAN : Timeout(c, survives)
    \/ \E c \in Calls : OutsideSignal(c)
    \/ \E c \in Calls : ExecCallback(c, 0)

SeqSpec == Init /\ [][SeqNext]_vars

(***************************************************************************)
(* cleanup(filePath, runId, ext) on its own: the working directory holds   *)
(* any subset of the targets of run 1 and possibly a file of another run,  *)
(* cleanup is called, and then called again with the same arguments.       *)
(* Every unlinkSync of an existing file succeeds here.                     *)
(***************************************************************************)
CleanupLangs == {"javascript", "java", "cpp"}

ForeignFile == PathJoin(TEMP_DIR, "s_other.js")

TargetSet(l, c) ==
    LET targets == CleanupTargets(FilePath(l, c), RunId(c))
    IN  {targets[i] : i \in 1..Len(targets)}

CleanupInit ==
    /\ platform \in Platforms
    /\ nextCall = 2
    /\ pc = [c \in Calls |-> IF c = 1 THEN "cleanup" ELSE "idle"]
    /\ \E l \in CleanupLangs :
          /\ lang = [c \in Calls |-> IF c = 1 THEN l ELSE ""]
          /\ \E present \in SUBSET (TargetSet(l, 1) \cup {ForeignFile}) :
                fs = [q \in present |-> SourceFile("print_hello")]
    /\ code = [c \in Calls |-> ""]
    /\ proc = [c \in Calls |-> NoProc]
    /\ written = [c \in Calls |-> ""]
    /\ delivered = [c \in Calls |-> << >>]
    /\ touched = [c \in Calls |-> {}]
    /\ execs = [c \in Calls |-> 0]
    /\ ClientInit

CleanupCall(c, from, to) ==
    /\ pc[c] = from
    /\ LET filePath == FilePath(lang[c], c)
           after == cleanup(fs, filePath, RunId(c), ExtOf(Lookup(lang[c])), 0)
           threw == CleanupThrows(fs, filePath, RunId(c), ExtOf(Lookup(lang[c])), 0)
       IN  /\ fs' = after
           /\ touched' = [touched EXCEPT ![c] = @ \cup (DOMAIN fs \ DOMAIN after)]
           /\ pc' = [pc EXCEPT ![c] = IF threw THEN "thrown" ELSE to]
    /\ UNCHANGED <<platform, nextCall, lang, code, proc, written, delivered,
                 execs, clientVars>>

FirstCleanup(c) == CleanupCall(c, "cleanup", "cleaned")

SecondCleanup(c) == CleanupCall(c, "cleaned", "cleaned again")

CleanupNext ==
    \/ \E c \in Calls : FirstCleanup(c)
    \/ \E c \in Calls : SecondCleanup(c)

CleanupSpec == CleanupInit /\ [][CleanupNext]_vars

(***************************************************************************)
(* The browser client: the editor, the language select, the drafts in      *)
(* localStorage and the Run button.  Each handler runs to completion.      *)
(***************************************************************************)
MaxInFlight == 2

UserTexts == {"", "draft a", "draft b"}

\* An autosave that stores every draft under the default language.
ChangeHandlerDefaultLang(store, sel, text) ==
    SetItem(store, StorageKey(DEFAULT_LANG), text)

\* editor.on('change'): saves the editor text under the language the select
\* shows at that moment.
ChangeHandler(store, sel, text) == SetItem(store, StorageKey(sel), text)

\* editor.setValue(text) runs the change handler before it returns; whether
\* the editor signals a change when the text is the one it already shows is
\* left open.
Fires(text) == IF text = editor THEN BOOLEAN ELSE {TRUE}

AfterSetValue(store, sel, text, fires) ==
    IF fires THEN ChangeHandler(store, sel, text) ELSE store

\* The select changes to l and its change listener calls loadCode(l).
SelectLanguage(l, fires) ==
    /\ l # selected
    /\ LET text == LoadedText(storage, l)
       IN  /\ fires \in Fires(text)
           /\ selected' = l
           /\ editor' = text
           /\ storage' = AfterSetValue(storage, l, text, fires)
           /\ lastContent' = SetItem(lastContent, l, text)
    /\ UNCHANGED <<runDisabled, inflight, serverVars>>

\* The user types: the editor shows another text and signals the change.
UserEdit(text) ==
    /\ text # editor
    /\ editor' = text
    /\ storage' = ChangeHandler(storage, selected, text)
    /\ lastContent' = SetItem(lastContent, selected, text)
    /\ UNCHANGED <<selected, runDisabled, inflight, serverVars>>

\* The Reset button with the confirm dialog accepted (declining it changes
\* nothing): setValue(template), then removeItem.
ResetCode(fires) ==
    /\ LET text == TEMPLATES[selected]
       IN  /\ fires \in Fires(text)
           /\ editor' = text
           /\ storage' = RemoveItem(AfterSetValue(storage, selected, text, fires),
                                    StorageKey(selected))
           /\ lastContent' = SetItem(lastContent, selected, text)
    /\ UNCHANGED <<selected, runDisabled, inflight, serverVars>>

\* runCode up to its await of fetch: the button is disabled and the request
\* is sent.
runCode ==
    /\ inflight < MaxInFlight
    /\ runDisabled' = TRUE
    /\ inflight' = inflight + 1
    /\ UNCHANGED <<selected, editor, storage, lastContent, serverVars>>

\* A click reaches the listener only while the button is enabled.
RunClick == ~runDisabled /\ runCode

\* The keydown listener calls runCode whatever the state of the button.
RunShortcut == runCode

\* The fetch of one runCode settles (response, network error or the abort
\* after 15 s) and its finally block enables the button.
RunSettles ==
    /\ inflight > 0
    /\ inflight' = inflight - 1
    /\ runDisabled' = FALSE
    /\ UNCHANGED <<selected, editor, storage, lastContent, serverVars>>

ClientNext ==
    \/ \E l \in ClientLangs, fires \in BOOLEAN : SelectLanguage(l, fires)
    \/ \E text \in UserTexts : UserEdit(text)
    \/ \E fires \in BOOLEAN : ResetCode(fires)
    \/ RunClick
    \/ RunShortcut
    \/ RunSettles

ClientSpec == Init /\ [][ClientNext]_vars

TypeOK ==
    /\ platform \in Platforms
    /\ nextCall \in 1..(MaxCalls + 1)
    /\ \A c \in Calls :
          /\ pc[c] \in {"idle", "exec", "done", "thrown"}
          /\ Len(delivered[c]) <= 1
(***************************************************************************)
(* Vocabulary of the properties.                                           *)
(***************************************************************************)
Started(c) == pc[c] # "idle"
Delivered(c) == delivered[c] # << >>
Result(c) == delivered[c][1]

Kind(r) ==
    IF "success" \in DOMAIN r
    THEN IF r.success THEN "Success" ELSE "RuntimeOrCompileFailure"
    ELSE IF r = TimedOut THEN "Timeout" ELSE "ConfigurationError"

Registered(l) == l \in DOMAIN LANGUAGES
GeneratedName(l) == Registered(l) /\ "filename" \notin DOMAIN LANGUAGES[l]
FixedName(l) == Registered(l) /\ "filename" \in DOMAIN LANGUAGES[l]

\* The artifacts of a run: its source file, bin_<runId> and bin_<runId>.exe.
RunArtifacts(c) ==
    LET bin == PathJoin(TEMP_DIR, "bin_" \o RunId(c))
    IN  {FilePath(lang[c], c), bin, AddSuffix(bin, ".exe")}

Failure(diag) == [success |-> FALSE, error |-> "Execution Failed", stderr |-> diag]

\* The results a run of this source text can deliver when nothing but its
\* own text is compiled and run: the program's own outcome, or one of the
\* outcomes its environment decides (timeout, signal, failed write).
OwnResults(text) ==
    LET g == Program(text) IN
    {TimedOut, WriteFailed, Failure("Command failed")}
    \cup (IF g.floods THEN {Failure("stdout maxBuffer length exceeded")}
          ELSE IF ~g.halts THEN {}
          ELSE IF g.exit = 0 /\ g.valid
               THEN {[success |-> TRUE, output |-> g.stdout, stderr |-> g.stderr]}
               ELSE {Failure(IF g.stderr # "" THEN g.stderr ELSE "Command failed")})

(***************************************************************************)
(* C1: once a run has delivered its result, none of its artifacts (source  *)
(* file, bin_<runId>, bin_<runId>.exe) exists in the working directory,    *)
(* at that moment and ever after.                                          *)
(***************************************************************************)
C1_NoArtifactAfterResult ==
    \A c \in Calls :
        (Delivered(c) /\ HasConfig(lang[c])) =>
            \A p \in RunArtifacts(c) : ~ExistsSync(fs, p)

(***************************************************************************)
(* C2: a language identifier that is not one of the eight registered ones  *)
(* yields the 'not supported' result, touches no file and starts no        *)
(* process; this includes names found through inheritance.                 *)
(***************************************************************************)
C2_UnregisteredIsRejected ==
    \A c \in Calls :
        (Started(c) /\ ~Registered(lang[c])) =>
            /\ delivered[c] = << NotSupported >>
            /\ touched[c] = {}
            /\ proc[c].shell = "none"

(***************************************************************************)
(* C3: after the Timeout result has been delivered, no process of that run *)
(* (shell, compiler, compiled program or interpreter) is still running.    *)
(***************************************************************************)
C3_NoProcessAfterTimeout ==
    \A c \in Calls :
        (Delivered(c) /\ Result(c) = TimedOut) =>
            (proc[c].shell # "alive" /\ ~ChildRunning(proc[c]))

(***************************************************************************)
(* C4: the Timeout result is delivered if and only if the command was      *)
(* killed by exec's timer; a command that ended by a non-zero exit, by the *)
(* output limit or by an outside signal is never reported as Timeout.      *)
(***************************************************************************)
C4_TimeoutIffTimerKilled ==
    \A c \in Calls :
        Delivered(c) => ((Result(c) = TimedOut) <=> (proc[c].cause = "timeout"))

C4_Witness ==
    \E c, d \in Calls :
        /\ Delivered(c) /\ proc[c].cause = "timeout" /\ Result(c) = TimedOut
        /\ Delivered(d) /\ proc[d].cause \in {"maxBuffer", "signal"}
        /\ Kind(Result(d)) = "RuntimeOrCompileFailure"

(***************************************************************************)
(* C5: a command that exits with status zero is delivered as Success with  *)
(* exactly the stdout and stderr of the program that ran, whether stderr   *)
(* is empty or not.                                                        *)
(***************************************************************************)
C5_ZeroExitIsSuccess ==
    \A c \in Calls :
        (Delivered(c) /\ proc[c].cause = "exit" /\ proc[c].exit = 0) =>
            Result(c) = [success |-> TRUE,
                         output |-> Program(proc[c].ran).stdout,
                         stderr |-> Program(proc[c].ran).stderr]

C5_Witness ==
    \E c \in Calls :
        /\ Delivered(c) /\ proc[c].cause = "exit" /\ proc[c].exit = 0
        /\ proc[c].stderr # ""
        /\ Kind(Result(c)) = "Success"

(***************************************************************************)
(* C6: a command that exits non-zero without being killed by the timer is  *)
(* delivered as a failure whose diagnostic is the captured stderr when     *)
(* that is non-empty and the error message of exec otherwise; the          *)
(* diagnostic is never empty.                                              *)
(***************************************************************************)
C6_NonZeroExitIsFailure ==
    \A c \in Calls :
        (Delivered(c) /\ proc[c].cause = "exit" /\ proc[c].exit # 0) =>
            /\ Kind(Result(c)) = "RuntimeOrCompileFailure"
            /\ Result(c).error = "Execution Failed"
            /\ Result(c).stderr # ""
            /\ Result(c).stderr =
                   IF proc[c].stderr # "" THEN proc[c].stderr ELSE "Command failed"

C6_Witness ==
    \E c, d \in Calls :
        /\ Delivered(c) /\ proc[c].cause = "exit" /\ proc[c].exit # 0
        /\ proc[c].stderr = "" /\ Result(c).stderr = "Command failed"
        /\ Delivered(d) /\ proc[d].cause = "exit" /\ proc[d].exit # 0
        /\ proc[d].stderr # "" /\ Result(d).stderr = proc[d].stderr

(***************************************************************************)
(* C7: executeCode never throws: every call that has returned has          *)
(* delivered exactly one result of one of the four kinds.                  *)
(***************************************************************************)
C7_NeverThrows ==
    \A c \in Calls :
        /\ pc[c] # "thrown"
        /\ pc[c] = "done" =>
              /\ Len(delivered[c]) = 1
              /\ Kind(Result(c)) \in {"Success", "RuntimeOrCompileFailure",
                                       "Timeout", "ConfigurationError"}

(***************************************************************************)
(* C8: when writing the source file fails, the 'failed to write' result is *)
(* delivered at once and no process is ever started for the run.           *)
(***************************************************************************)
C8_WriteFailureStartsNoProcess ==
    \A c \in Calls :
        written[c] \in {"open_fails", "write_fails"} =>
            /\ delivered[c] = << WriteFailed >>
            /\ pc[c] = "done"
            /\ proc[c].shell = "none"

C8_Witness ==
    \E c \in Calls :
        /\ Registered(lang[c])
        /\ written[c] = "write_fails"
        /\ delivered[c] = << WriteFailed >>

(***************************************************************************)
(* C9: when every run uses a generated file name (no java run), the sets   *)
(* of paths that different runs write, execute and delete are pairwise     *)
(* disjoint, and each delivered result is an outcome of the run's own      *)
(* source text.                                                            *)
(***************************************************************************)
NoFixedNameRun == \A c \in Calls : Started(c) => ~FixedName(lang[c])

C9_GeneratedNamesIsolateRuns ==
    NoFixedNameRun =>
        /\ \A c, d \in Calls : c # d => touched[c] \cap touched[d] = {}
        /\ \A c \in Calls :
              (Delivered(c) /\ GeneratedName(lang[c])) =>
                  Result(c) \in OwnResults(code[c])

C9_Witness ==
    \E c, d \in Calls :
        /\ c # d
        /\ GeneratedName(lang[c]) /\ GeneratedName(lang[d])
        /\ d < c /\ code[c] # code[d]
        /\ pc[d] = "exec" /\ proc[d].stage = "run"
        /\ Delivered(c) /\ Kind(Result(c)) = "Success"
        /\ touched[c] # {} /\ touched[d] # {}

(***************************************************************************)
(* C10: a java run next to runs of other languages never changes their     *)
(* results: a java run touches no artifact of another language's run, and  *)
(* every result of a non-java run is an outcome of that run's own text.    *)
(***************************************************************************)
C10_FixedNameRunLeavesOthersAlone ==
    \A c \in Calls :
        GeneratedName(lang[c]) =>
            /\ Delivered(c) => Result(c) \in OwnResults(code[c])
            /\ \A j \in Calls :
                  FixedName(lang[j]) => touched[j] \cap RunArtifacts(c) = {}

C10_Witness ==
    \E c, j \in Calls :
        /\ GeneratedName(lang[c]) /\ FixedName(lang[j])
        /\ j < c
        /\ pc[j] = "exec" /\ PathJoin(TEMP_DIR, "Main.class") \in touched[j]
        /\ Delivered(c) /\ Kind(Result(c)) = "Success"
(***************************************************************************)
(* C11: an error of the file system during cleanup never changes the       *)
(* delivered result and is not thrown: once the exec callback has run, the *)
(* call has delivered the one result that the outcome of the process       *)
(* determines, whether or not cleanup failed.                              *)
(***************************************************************************)
OutcomeResult(p) ==
    CASE p.cause = "timeout" -> TimedOut
      [] p.cause = "maxBuffer" -> Failure("stdout maxBuffer length exceeded")
      [] p.cause = "signal" -> Failure("Command failed")
      [] p.cause = "exit" /\ p.exit = 0 ->
            [success |-> TRUE, output |-> p.stdout, stderr |-> p.stderr]
      [] OTHER -> Failure(IF p.stderr # "" THEN p.stderr ELSE "Command failed")

C11_CleanupFailureKeepsResult ==
    \A c \in Calls :
        (proc[c].shell \in {"exited", "killed"} /\ pc[c] # "exec") =>
            /\ pc[c] = "done"
            /\ delivered[c] = << OutcomeResult(proc[c]) >>

\* The source file of a run is still there after its exec callback: the
\* unlinkSync of cleanup threw.
C11_Witness ==
    \E c \in Calls :
        /\ GeneratedName(lang[c])
        /\ pc[c] = "done" /\ proc[c].shell = "exited"
        /\ ExistsSync(fs, FilePath(lang[c], c))
        /\ Kind(Result(c)) = "Success"
(***************************************************************************)
(* C12: every call of executeCode eventually delivers a result; a program  *)
(* that never halts is ended by the timer and its call delivers Timeout.   *)
(***************************************************************************)
C12_EveryCallDelivers ==
    \A c \in Calls : Started(c) ~> Delivered(c)
(***************************************************************************)
(* C13: each call of executeCode calls exec at most once and invokes its   *)
(* callback exactly once: a call that has ended has delivered one result,  *)
(* and no call ever delivers a second one.                                 *)
(***************************************************************************)
C13_OneExecOneResult ==
    \A c \in Calls :
        /\ execs[c] <= 1
        /\ Len(delivered[c]) <= 1
        /\ pc[c] \in {"done", "thrown"} => Len(delivered[c]) = 1

(***************************************************************************)
(* C14: repeating one call, each after the one before it has delivered,    *)
(* gives the same result every time, and after each call the working       *)
(* directory is as it was before the first (empty).  The calls meant are   *)
(* those whose outcome is the program's own: the source was written and    *)
(* the command ended by itself, by the output limit, or by the timer       *)
(* because the program never halts.                                        *)
(***************************************************************************)
OwnOutcome(c) ==
    /\ written[c] = "ok"
    /\ \/ proc[c].cause \in {"exit", "maxBuffer"}
       \/ proc[c].cause = "timeout" /\ ~Program(code[c]).halts

C14_RepeatIsIdempotent ==
    \A c \in Calls :
        ( /\ \A b \in 1..c : Delivered(b) /\ OwnOutcome(b)
          /\ \A b \in Calls : b > c => pc[b] = "idle" ) =>
            /\ \A b \in 1..c : Result(b) = Result(c)
            /\ fs = << >>
(***************************************************************************)
(* C15: the cleanup of a run deletes no file that another run, still in    *)
(* flight, wrote or compiled; in particular the cleanup of a non-java run  *)
(* deletes no artifact of a java run in flight.                            *)
(***************************************************************************)
C15_CleanupDeletesOnlyOwnFiles ==
    [][ \A c \in Calls :
          (pc[c] = "exec" /\ pc'[c] # "exec") =>
              \A d \in Calls :
                  (d # c /\ pc[d] = "exec") =>
                      (DOMAIN fs \ DOMAIN fs') \cap touched[d] = {} ]_vars

(***************************************************************************)
(* C16: runs of the fixed-name recipe are isolated from one another: two   *)
(* java runs never write, compile from or delete the same path, and each   *)
(* java result is an outcome of the run's own source text.                 *)
(***************************************************************************)
C16_FixedNameRunsAreIsolated ==
    \A c \in Calls :
        FixedName(lang[c]) =>
            /\ \A d \in Calls :
                  (d # c /\ FixedName(lang[d])) => touched[c] \cap touched[d] = {}
            /\ Delivered(c) => Result(c) \in OwnResults(code[c])
(***************************************************************************)
(* C17: whichever subset of its targets exists when cleanup starts,        *)
(* cleanup removes every target that exists, leaves every other file, and  *)
(* raises no error for the missing ones; a second cleanup with the same    *)
(* arguments changes nothing and raises no error.                          *)
(***************************************************************************)
C17_CleanupToleratesAbsence ==
    [][ \A c \in Calls :
          /\ (pc[c] = "cleanup" /\ pc'[c] # "cleanup") =>
                /\ pc'[c] = "cleaned"
                /\ fs' = [q \in DOMAIN fs \ TargetSet(lang[c], c) |-> fs[q]]
          /\ (pc[c] = "cleaned" /\ pc'[c] # "cleaned") =>
                /\ pc'[c] = "cleaned again"
                /\ fs' = fs ]_vars

\* Cleanup ran twice on a directory where a later target existed and an
\* earlier one was missing.
C17_Witness ==
    \E c \in Calls :
        /\ pc[c] = "cleaned again"
        /\ \E i, j \in 1..Len(CleanupTargets(FilePath(lang[c], c), RunId(c))) :
              LET targets == CleanupTargets(FilePath(lang[c], c), RunId(c))
              IN  i < j /\ targets[i] \notin touched[c] /\ targets[j] \in touched[c]
(***************************************************************************)
(* C18: in the browser client at most one execution request is in flight   *)
(* at any time, whether runCode is started by the Run button or by the     *)
(* Ctrl/Cmd+Enter shortcut.                                                *)
(***************************************************************************)
C18_AtMostOneRequestInFlight == inflight <= 1

(***************************************************************************)
(* C19: the draft stored under codelab_v2_<L> is the last editor content   *)
(* produced while L was the selected language; a step changes no draft but *)
(* that of the language selected after it; and after a confirmed reset of  *)
(* L no draft is stored for L, so loadCode(L) shows the template.          *)
(***************************************************************************)
Draft(store, l) ==
    IF StorageKey(l) \in DOMAIN store THEN << store[StorageKey(l)] >> ELSE << >>

C19_DraftsAreIsolatedPerLanguage ==
    [][ /\ \A l \in ClientLangs :
              Draft(storage', l) # << >> =>
                  l \in DOMAIN lastContent' /\ Draft(storage', l) = << lastContent'[l] >>
        /\ \A l \in ClientLangs :
              l # selected' => Draft(storage', l) = Draft(storage, l)
        /\ (\E fires \in BOOLEAN : ResetCode(fires)) =>
              /\ Draft(storage', selected) = << >>
              /\ LoadedText(storage', selected) = TEMPLATES[selected] ]_vars

\* Two languages hold different drafts of the user, and a third was reset
\* after it had been edited.
C19_Witness ==
    \E l, m, n \in ClientLangs :
        /\ l # m /\ l # n /\ m # n
        /\ Draft(storage, l) = << "draft a" >>
        /\ Draft(storage, m) = << "draft b" >>
        /\ selected = n
        /\ Draft(storage, n) = << >>
        /\ editor = TEMPLATES[n]
====
